---- MODULE Spec2Model ----
(***************************************************************************)
(* Gilded Rose inventory updater (src/src/gildedrose.rs).                  *)
(*                                                                         *)
(* The state is the caller-owned Vec<Item> of a GildedRose value; the only *)
(* operation is GildedRose::update_quality, which runs its whole for-loop  *)
(* in one step (single-threaded, no suspension points).  sell_in and       *)
(* quality are i32: additions are modelled with their width, and an        *)
(* overflow either panics (build with overflow checks, the debug default)  *)
(* or wraps (build without, the release default).                          *)
(***************************************************************************)
EXTENDS Integers, Sequences, FiniteSets

VARIABLES
    items,            \* GildedRose.items: sequence of [name, sell_in, quality]
    items0,           \* history: the items handed to GildedRose::new
    calls,            \* history: number of update_quality calls started
    overflow_checks,  \* build profile: TRUE = overflow panics, FALSE = wraps
    outcome           \* last call: "none" | "wrap" (overflow wrapped) | "panic"

vars == <<items, items0, calls, overflow_checks, outcome>>

(***************************** program constants ***************************)
AGED_BRIE_ITEM == "Aged Brie"
BACKSTAGE_PASSES_ITEM == "Backstage passes to a TAFKAL80ETC concert"
COMMON_ITEM == "Elixir of the Mongoose"
CONJURED_ITEM == "Conjured Mana Cake"
LEGENDARY_ITEM == "Sulfuras, Hand of Ragnaros"

MAXIMUM_ALLOWED_QUALITY == 50
MINIMUM_ALLOWED_QUALITY == 0

\* i32 range of Item.sell_in and Item.quality
I32_MAX == 2147483647
I32_MIN == (-I32_MAX) - 1

(********************************* bounds **********************************)
MaxCalls == 6       \* update_quality calls per behaviour
SellInBelow == 1    \* initial sell_in ranges over -SellInBelow .. SellInAbove
SellInAbove == 11
QualitySlack == 3   \* initial quality ranges over 0-QualitySlack .. 50+QualitySlack
EdgeSpan == 4       \* distance from the i32 limits explored by InitI32

(***************************** i32 arithmetic ******************************)
\* a + b on i32: the wrapped two's-complement sum and whether it overflowed.
\* Written so that no intermediate value leaves the i32 range.
AddI32(a, b) ==
    IF b > 0 /\ a > I32_MAX - b
    THEN [val |-> ((a - I32_MAX) + (b - 1)) + I32_MIN, ovf |-> TRUE]
    ELSE IF b < 0 /\ a < I32_MIN - b
    THEN [val |-> ((a - I32_MIN) + (b + 1)) + I32_MAX, ovf |-> TRUE]
    ELSE [val |-> a + b, ovf |-> FALSE]

cmp_min(a, b) == IF a <= b THEN a ELSE b
cmp_max(a, b) == IF a >= b THEN a ELSE b

(***************************** Item / GildedRose ***************************)
\* Item::new
Item_new(name, sell_in, quality) ==
    [name |-> name, sell_in |-> sell_in, quality |-> quality]

\* faulty variant: the cmp::max(.., MINIMUM_ALLOWED_QUALITY) is missing
get_updated_quality_within_bounds_no_floor(item, adjust_by) ==
    LET new_quality == AddI32(item.quality, adjust_by)
    IN  [val |-> cmp_min(new_quality.val, MAXIMUM_ALLOWED_QUALITY),
         ovf |-> new_quality.ovf]

\* faulty variant: the adjustment is applied twice
get_updated_quality_within_bounds_twice(item, adjust_by) ==
    LET new_quality == AddI32(item.quality, 2 * adjust_by)
    IN  [val |-> cmp_max(cmp_min(new_quality.val, MAXIMUM_ALLOWED_QUALITY),
                         MINIMUM_ALLOWED_QUALITY),
         ovf |-> new_quality.ovf]

\* max(min(quality + adjust_by, 50), 0)
get_updated_quality_within_bounds(item, adjust_by) ==
    LET new_quality == AddI32(item.quality, adjust_by)
    IN  [val |-> cmp_max(cmp_min(new_quality.val, MAXIMUM_ALLOWED_QUALITY),
                         MINIMUM_ALLOWED_QUALITY),
         ovf |-> new_quality.ovf]

quality_increasing_update_strategy(item) ==
    LET quality_adjustment == IF item.sell_in <= 0 THEN 2 ELSE 1
    IN  get_updated_quality_within_bounds(item, quality_adjustment)

\* faulty variant: `<` for `<=` in the after-the-concert test
backstage_passes_update_strategy_lt0(item) ==
    IF item.sell_in < 0
    THEN [val |-> 0, ovf |-> FALSE]
    ELSE LET quality_adjustment ==
                 IF item.sell_in <= 5 THEN 3
                 ELSE IF item.sell_in <= 10 THEN 2
                 ELSE 1
         IN  get_updated_quality_within_bounds(item, quality_adjustment)

backstage_passes_update_strategy(item) ==
    IF item.sell_in <= 0
    THEN [val |-> 0, ovf |-> FALSE]
    ELSE LET quality_adjustment ==
                 IF item.sell_in <= 5 THEN 3
                 ELSE IF item.sell_in <= 10 THEN 2
                 ELSE 1
         IN  get_updated_quality_within_bounds(item, quality_adjustment)

\* faulty variant: the adjustments of the default strategy, not doubled
faster_degrading_update_strategy_not_doubled(item) ==
    LET quality_adjustment == IF item.sell_in <= 0 THEN -2 ELSE -1
    IN  get_updated_quality_within_bounds(item, quality_adjustment)

faster_degrading_update_strategy(item) ==
    LET quality_adjustment == IF item.sell_in <= 0 THEN -4 ELSE -2
    IN  get_updated_quality_within_bounds(item, quality_adjustment)

\* faulty variant: the two branches swapped
default_update_strategy_swapped(item) ==
    LET quality_adjustment == IF item.sell_in <= 0 THEN -1 ELSE -2
    IN  get_updated_quality_within_bounds(item, quality_adjustment)

default_update_strategy(item) ==
    LET quality_adjustment == IF item.sell_in <= 0 THEN -2 ELSE -1
    IN  get_updated_quality_within_bounds(item, quality_adjustment)

\* faulty variant: Aged Brie matched without regard to case
match_strategy_prefix(item) ==
    IF item.name = AGED_BRIE_ITEM \/ item.name = "aged brie"
    THEN quality_increasing_update_strategy(item)
    ELSE IF item.name = BACKSTAGE_PASSES_ITEM
    THEN backstage_passes_update_strategy(item)
    ELSE IF item.name = CONJURED_ITEM
    THEN faster_degrading_update_strategy(item)
    ELSE default_update_strategy(item)

\* the match on item.name of update_quality
match_strategy(item) ==
    IF item.name = AGED_BRIE_ITEM
    THEN quality_increasing_update_strategy(item)
    ELSE IF item.name = BACKSTAGE_PASSES_ITEM
    THEN backstage_passes_update_strategy(item)
    ELSE IF item.name = CONJURED_ITEM
    THEN faster_degrading_update_strategy(item)
    ELSE default_update_strategy(item)

\* faulty variant: no `continue` for the legendary item
loop_body_touches_legendary(item, checks) ==
    LET q == match_strategy(item)
        it1 == [item EXCEPT !.quality = q.val]
        s == AddI32(item.sell_in, -1)
    IN  IF q.ovf /\ checks
        THEN [item |-> item, outcome |-> "panic"]
        ELSE IF s.ovf /\ checks
        THEN [item |-> it1, outcome |-> "panic"]
        ELSE [item |-> [it1 EXCEPT !.sell_in = s.val],
              outcome |-> IF q.ovf \/ s.ovf THEN "wrap" ELSE "none"]

\* faulty variant: sell_in is not decremented once quality is 0
loop_body_keeps_sell_in_at_zero_quality(item, checks) ==
    IF item.name = LEGENDARY_ITEM
    THEN [item |-> item, outcome |-> "none"]
    ELSE LET q == match_strategy(item)
             it1 == [item EXCEPT !.quality = q.val]
             s == IF q.val = 0 THEN [val |-> item.sell_in, ovf |-> FALSE]
                  ELSE AddI32(item.sell_in, -1)
         IN  IF q.ovf /\ checks
             THEN [item |-> item, outcome |-> "panic"]
             ELSE IF s.ovf /\ checks
             THEN [item |-> it1, outcome |-> "panic"]
             ELSE [item |-> [it1 EXCEPT !.sell_in = s.val],
                   outcome |-> IF q.ovf \/ s.ovf THEN "wrap" ELSE "none"]

\* faulty variant: expired items of quality 0 are skipped like legendary ones
loop_body_skips_worthless_expired(item, checks) ==
    IF item.name = LEGENDARY_ITEM \/ (item.quality = 0 /\ item.sell_in < 0)
    THEN [item |-> item, outcome |-> "none"]
    ELSE LET q == match_strategy(item)
             it1 == [item EXCEPT !.quality = q.val]
             s == AddI32(item.sell_in, -1)
         IN  IF q.ovf /\ checks
             THEN [item |-> item, outcome |-> "panic"]
             ELSE IF s.ovf /\ checks
             THEN [item |-> it1, outcome |-> "panic"]
             ELSE [item |-> [it1 EXCEPT !.sell_in = s.val],
                   outcome |-> IF q.ovf \/ s.ovf THEN "wrap" ELSE "none"]

\* One iteration of the for-loop of update_quality on `item`, in a build with
\* (checks) or without overflow checks.  A panic leaves the fields assigned so
\* far: none when quality + adjust_by overflows, quality alone when
\* sell_in -= 1 overflows.
loop_body(item, checks) ==
    IF item.name = LEGENDARY_ITEM
    THEN [item |-> item, outcome |-> "none"]
    ELSE LET q == match_strategy(item)
             it1 == [item EXCEPT !.quality = q.val]
             s == AddI32(item.sell_in, -1)
         IN  IF q.ovf /\ checks
             THEN [item |-> item, outcome |-> "panic"]
             ELSE IF s.ovf /\ checks
             THEN [item |-> it1, outcome |-> "panic"]
             ELSE [item |-> [it1 EXCEPT !.sell_in = s.val],
                   outcome |-> IF q.ovf \/ s.ovf THEN "wrap" ELSE "none"]

\* for item in &mut self.items { ... }: items i.. of `its` in collection order,
\* stopping at the first panic; `acc` is the overflow outcome so far.
RECURSIVE for_each_item(_, _, _, _)
for_each_item(its, i, checks, acc) ==
    IF i > Len(its) \/ acc = "panic"
    THEN [items |-> its, outcome |-> acc]
    ELSE LET r == loop_body(its[i], checks)
         IN  for_each_item([its EXCEPT ![i] = r.item], i + 1, checks,
                           IF r.outcome = "none" THEN acc ELSE r.outcome)

\* faulty variant: the loop also drops items that are worthless after the update
for_each_item_dropping(its, checks) ==
    LET r == for_each_item(its, 1, checks, "none")
    IN  [items |-> SelectSeq(r.items, LAMBDA it :
                       it.name = LEGENDARY_ITEM \/ it.quality > 0 \/ it.sell_in >= 0),
         outcome |-> r.outcome]

run_update_quality(its, checks) == for_each_item(its, 1, checks, "none")

(********************************* actions *********************************)
\* GildedRose::update_quality(&mut self); a panicked program makes no more calls.
update_quality ==
    /\ outcome # "panic"
    /\ calls < MaxCalls
    /\ LET r == run_update_quality(items, overflow_checks)
       IN  /\ items' = r.items
           /\ outcome' = r.outcome
    /\ calls' = calls + 1
    /\ UNCHANGED <<items0, overflow_checks>>

Next == update_quality

(****************************** initial states *****************************)
Names ==
    {AGED_BRIE_ITEM, BACKSTAGE_PASSES_ITEM, COMMON_ITEM, CONJURED_ITEM,
     LEGENDARY_ITEM, "Unrecognized Item", "aged brie"}

\* items the tests of the source construct, used as the second item of a pair
Fixtures ==
    {Item_new(COMMON_ITEM, 5, 7),
     Item_new(LEGENDARY_ITEM, 0, 80),
     Item_new(BACKSTAGE_PASSES_ITEM, 10, 0)}

ItemSpace ==
    {Item_new(n, s, q) :
        n \in Names,
        s \in (0 - SellInBelow) .. SellInAbove,
        q \in (MINIMUM_ALLOWED_QUALITY - QualitySlack)
                 .. (MAXIMUM_ALLOWED_QUALITY + QualitySlack)}

\* items at the limits of i32
ItemSpaceI32 ==
    {Item_new(n, s, q) :
        n \in Names,
        s \in {I32_MIN, I32_MIN + 1, 0, 1, I32_MAX},
        q \in {I32_MIN + k : k \in 0 .. EdgeSpan} \cup {0, 50}
                 \cup {I32_MAX - k : k \in 0 .. EdgeSpan}}

\* GildedRose::new(items) for an empty, a one-item or a two-item Vec; the last
\* set pairs each Conjured item with a normal item of equal sell_in and quality
Collections(space) ==
    {<<>>} \cup {<<a>> : a \in space}
           \cup {<<a, c>> : a \in space, c \in Fixtures}
           \cup {<<c, a>> : a \in space, c \in Fixtures}
           \cup {<<a, [a EXCEPT !.name = COMMON_ITEM]>> :
                     a \in {b \in space : b.name = CONJURED_ITEM}}

InitWith(space) ==
    /\ items \in Collections(space)
    /\ items0 = items
    /\ calls = 0
    /\ overflow_checks \in BOOLEAN
    /\ outcome = "none"

Init == InitWith(ItemSpace)
InitI32 == InitWith(ItemSpaceI32)

Spec == Init /\ [][Next]_vars
SpecI32 == InitI32 /\ [][Next]_vars

TypeOK ==
    /\ calls \in 0 .. MaxCalls
    /\ outcome \in {"none", "wrap", "panic"}
    /\ \A i \in 1 .. Len(items) :
          /\ items[i].sell_in >= I32_MIN /\ items[i].sell_in <= I32_MAX
          /\ items[i].quality >= I32_MIN /\ items[i].quality <= I32_MAX

(***************************************************************************)
(*                               Claims                                    *)
(***************************************************************************)
IsLegendary(it) == it.name = LEGENDARY_ITEM
IsNormal(it) ==
    it.name \notin {AGED_BRIE_ITEM, BACKSTAGE_PASSES_ITEM, CONJURED_ITEM,
                    LEGENDARY_ITEM}
InQualityRange(q) == q >= 0 /\ q <= 50
Clamp(x) == IF x > 50 THEN 50 ELSE IF x < 0 THEN 0 ELSE x
Returned == outcome # "panic"
At(it, s, q) == it.sell_in = s /\ it.quality = q

\* C1: after any update_quality call every non-legendary item has quality in
\* 0..50, whatever its starting sell_in and quality (also outside 0..50).
C1_QualityInRange ==
    (calls >= 1 /\ Returned) =>
        \A i \in 1 .. Len(items) :
            ~IsLegendary(items[i]) => InQualityRange(items[i].quality)

C1_Witness ==
    /\ calls = 1
    /\ Returned
    /\ \E i \in 1 .. Len(items) :
          /\ ~IsLegendary(items[i])
          /\ items0[i].quality > 50
          /\ items0[i].sell_in <= 0
          /\ items[i].quality = 50

\* C2: a legendary item keeps its initial quality and sell_in after any number
\* of calls, whatever they are and whatever else is in the collection.
C2_LegendaryUnchanged ==
    \A i \in 1 .. Len(items) :
        IsLegendary(items0[i]) =>
            At(items[i], items0[i].sell_in, items0[i].quality)

C2_Witness ==
    /\ calls >= 3
    /\ Len(items) = 2
    /\ IsLegendary(items0[1])
    /\ ~InQualityRange(items0[1].quality)
    /\ items0[1].sell_in < 0
    /\ ~IsLegendary(items0[2])
    /\ items[2] # items0[2]

\* C3: one call sets a non-legendary item's quality to clamp(q + delta, 0, 50)
\* with delta chosen by exact name match and by the sell_in before the call
\* (Backstage passes with sell_in <= 0: quality forced to 0).
C3_Delta(name, s) ==
    IF name = AGED_BRIE_ITEM THEN (IF s > 0 THEN 1 ELSE 2)
    ELSE IF name = CONJURED_ITEM THEN (IF s > 0 THEN -2 ELSE -4)
    ELSE IF name = BACKSTAGE_PASSES_ITEM
    THEN (IF s > 10 THEN 1 ELSE IF s >= 6 THEN 2 ELSE 3)
    ELSE (IF s > 0 THEN -1 ELSE -2)

C3_Expected(it) ==
    IF it.name = BACKSTAGE_PASSES_ITEM /\ it.sell_in <= 0
    THEN 0
    ELSE Clamp(it.quality + C3_Delta(it.name, it.sell_in))

C3_QualityRule ==
    [][outcome' # "panic" =>
          \A i \in 1 .. Len(items) :
              ~IsLegendary(items[i]) =>
                  items'[i].quality = C3_Expected(items[i])]_vars

C3_Witness ==
    /\ calls = 1
    /\ Len(items) = 2
    /\ items0[1].name = "aged brie"
    /\ items0[1].sell_in > 0
    /\ items[1].quality = items0[1].quality - 1
    /\ items0[2] = Item_new(BACKSTAGE_PASSES_ITEM, 10, 0)
    /\ items[2].quality = 2

\* C4 as stated: a normal item starting at (10, 20) is at (9, 19) after 1 call,
\* at (5, 15) after 5 calls and at (4, 13) after 6 calls.
C4_Original ==
    \A i \in 1 .. Len(items) :
        (IsNormal(items0[i]) /\ At(items0[i], 10, 20) /\ Returned) =>
            /\ calls = 1 => At(items[i], 9, 19)
            /\ calls = 5 => At(items[i], 5, 15)
            /\ calls = 6 => At(items[i], 4, 13)

\* C4 amended: a normal item starting at (10, 20) is at (9, 19) after 1 call,
\* at (5, 15) after 5 calls and at (4, 14) after 6 calls.
C4_NormalTrajectory ==
    \A i \in 1 .. Len(items) :
        (IsNormal(items0[i]) /\ At(items0[i], 10, 20) /\ Returned) =>
            /\ calls = 1 => At(items[i], 9, 19)
            /\ calls = 5 => At(items[i], 5, 15)
            /\ calls = 6 => At(items[i], 4, 14)

C4_Witness ==
    /\ calls = 6
    /\ Len(items) >= 1
    /\ items0[1] = Item_new(COMMON_ITEM, 10, 20)
    /\ items[1] = Item_new(COMMON_ITEM, 4, 14)

\* C5: after at least one call a Backstage passes item with sell_in < 0 has
\* quality 0 (so once a call is made at sell_in <= 0 quality is 0 and stays 0);
\* (5, 48) becomes (4, 50), stays at 50 until sell_in is 0, and is 0 afterwards.
C5_BackstageZero ==
    (calls >= 1 /\ Returned) =>
        \A i \in 1 .. Len(items) :
            items[i].name = BACKSTAGE_PASSES_ITEM =>
                /\ items[i].sell_in < 0 => items[i].quality = 0
                /\ At(items0[i], 5, 48) =>
                      /\ calls = 1 => At(items[i], 4, 50)
                      /\ calls <= 5 => items[i].quality = 50
                      /\ calls >= 6 => items[i].quality = 0

C5_Witness ==
    /\ calls = 6
    /\ Len(items) >= 1
    /\ items0[1] = Item_new(BACKSTAGE_PASSES_ITEM, 5, 48)
    /\ items[1] = Item_new(BACKSTAGE_PASSES_ITEM, -1, 0)

\* C6 as stated: for a Conjured and a normal item with the same sell_in and the
\* same quality in 0..50, one call lowers the Conjured item's quality by exactly
\* twice what it lowers the normal item's, and a Conjured item with
\* sell_in <= 0 loses exactly 4 per call.
C6_Original ==
    [][outcome' # "panic" =>
          \A i \in 1 .. Len(items) :
              (items[i].name = CONJURED_ITEM /\ InQualityRange(items[i].quality)) =>
                  /\ \A j \in 1 .. Len(items) :
                        (IsNormal(items[j])
                           /\ At(items[j], items[i].sell_in, items[i].quality)) =>
                            items[i].quality - items'[i].quality
                                = 2 * (items[j].quality - items'[j].quality)
                  /\ items[i].sell_in <= 0 =>
                        items[i].quality - items'[i].quality = 4]_vars

\* C6 amended: with d = 2 if sell_in > 0 and d = 4 otherwise, a Conjured item
\* of quality q in 0..50 loses exactly d when q >= d, which is then twice the
\* loss of a normal item of the same sell_in and quality, and drops to 0 when
\* q < d; (3, 18) becomes (2, 16), (0, 12) after 3 calls, then (-1, 8).
C6_ConjuredTwice ==
    [][outcome' # "panic" =>
          \A i \in 1 .. Len(items) :
              items[i].name = CONJURED_ITEM =>
                  LET q == items[i].quality
                      d == IF items[i].sell_in > 0 THEN 2 ELSE 4
                  IN  /\ (InQualityRange(q) /\ q >= d) =>
                            /\ q - items'[i].quality = d
                            /\ \A j \in 1 .. Len(items) :
                                  (IsNormal(items[j])
                                     /\ At(items[j], items[i].sell_in, q)) =>
                                      q - items'[i].quality
                                          = 2 * (items[j].quality - items'[j].quality)
                      /\ (InQualityRange(q) /\ q < d) => items'[i].quality = 0
                      /\ At(items0[i], 3, 18) =>
                            /\ calls' = 1 => At(items'[i], 2, 16)
                            /\ calls' = 3 => At(items'[i], 0, 12)
                            /\ calls' = 4 => At(items'[i], -1, 8)]_vars

C6_Witness ==
    /\ calls = 1
    /\ Len(items) = 2
    /\ items0[1].name = CONJURED_ITEM
    /\ items0[2].name = COMMON_ITEM
    /\ items0[1].sell_in <= 0
    /\ items0[2].sell_in = items0[1].sell_in
    /\ items0[1].quality = 10
    /\ items0[2].quality = 10
    /\ items[1].quality = 6
    /\ items[2].quality = 8

\* C7: after n calls a non-legendary item's sell_in is its initial sell_in
\* minus n (each call takes exactly 1, whatever the category and the quality,
\* clamped or forced to 0 or not), also below 0.
C7_SellInDecrement ==
    Returned =>
        \A i \in 1 .. Len(items) :
            ~IsLegendary(items0[i]) =>
                items[i].sell_in = items0[i].sell_in - calls

C7_Witness ==
    /\ calls >= 3
    /\ \E i \in 1 .. Len(items) :
          /\ items0[i].name = BACKSTAGE_PASSES_ITEM
          /\ items0[i].sell_in = 1
          /\ items0[i].quality > 50
          /\ items[i].quality = 0
          /\ items[i].sell_in = 1 - calls

\* C8: names, the number of items and their positions never change.
C8_Frame ==
    /\ Len(items) = Len(items0)
    /\ \A i \in 1 .. Len(items0) : items[i].name = items0[i].name

C8_Witness ==
    /\ calls >= 2
    /\ Len(items) = 2
    /\ items[1].name # items[2].name
    /\ items[1].quality = 0
    /\ items[1].sell_in < 0
    /\ items[2] # items0[2]

StateOf(its) == [i \in 1 .. Len(its) |-> <<its[i].sell_in, its[i].quality>>]

\* C9 as stated: for every collection, the sell_in and quality of its items
\* after an update_quality call differ from those before the call.
C9_Original ==
    [][outcome' # "panic" => StateOf(items') # StateOf(items)]_vars

\* C9 amended: for every collection holding at least one non-legendary item,
\* the sell_in and quality of its items after a call that returns differ from
\* those before the call; an empty or all-legendary collection is unchanged.
C9_ChangesState ==
    [][outcome' # "panic" =>
          IF \E i \in 1 .. Len(items) : ~IsLegendary(items[i])
          THEN StateOf(items') # StateOf(items)
          ELSE StateOf(items') = StateOf(items)]_vars

C9_Witness ==
    /\ calls >= 2
    /\ Len(items) = 2
    /\ IsLegendary(items[1])
    /\ ~IsLegendary(items[2])
    /\ items[2].quality = 0
    /\ items[2].sell_in < 0

\* C10 as stated: for arbitrary i32 sell_in and quality no addition or
\* subtraction of a call overflows.
C10_Original == outcome = "none"

\* C10 amended: a call overflows nowhere when every non-legendary item has
\* sell_in > i32::MIN and quality within i32::MIN + 4 ..= i32::MAX - 3.
C10_SafeRange(its) ==
    \A i \in 1 .. Len(its) :
        ~IsLegendary(its[i]) =>
            /\ its[i].sell_in > I32_MIN
            /\ its[i].quality >= I32_MIN + 4
            /\ its[i].quality <= I32_MAX - 3

C10_NoOverflowInSafeRange ==
    [][C10_SafeRange(items) => outcome' = "none"]_vars

C10_Witness ==
    /\ calls = 1
    /\ outcome = "none"
    /\ Len(items) = 1
    /\ items0[1].name = BACKSTAGE_PASSES_ITEM
    /\ items0[1].sell_in = 1
    /\ items0[1].quality = I32_MAX - 3
    /\ items[1].quality = 50
====
